---------------------------- MODULE Spec2Model ----------------------------
(***************************************************************************)
(* The Compass component of src/components/Compass copy.tsx.  The file     *)
(* holds two variants of the component (lines 1-172 and 174-345); the      *)
(* variable `variant` says which one a behaviour runs.                     *)
(*                                                                         *)
(* Angles are fixed-point numbers in half-degrees: D(n) is n degrees, so   *)
(* 22.5 degrees is 45 units and a full turn is 720 units.  The arithmetic  *)
(* of the source (%, +, -, Math.round) is exact on these values.           *)
(***************************************************************************)
EXTENDS Integers, Sequences, FiniteSets

VARIABLES
    variant,        \* 1: lines 1-172, 2: lines 174-345
    phase,          \* "created" | "mounted" | "unmounted"
    task,           \* the async probe task: "idle" | "awaiting" | "done" | "rejected"
    available,      \* useState<boolean | null>: "null" | "true" | "false"
    heading,        \* useState(0), half-degrees
    accuracyHint,   \* useState<string | null>: "null" | "figure8"
    rotationDeg,    \* rotationDeg.value, the shared value as read right now
    rotationTarget, \* the value the running withTiming animates to
    sub,            \* the effect's `sub`: "null" | "subscribed" | "removed"
    listenerCount,  \* listeners registered on Magnetometer
    updateInterval, \* Magnetometer update interval in ms, 0: never set
    lastSample,     \* the last sample handed to the listener, NoSample before
    argA, argB,     \* inputs of the pure functions (MathSpec)
    out             \* result of the last pure function applied (MathSpec)

vars == <<variant, phase, task, available, heading, accuracyHint, rotationDeg,
          rotationTarget, sub, listenerCount, updateInterval, lastSample,
          argA, argB, out>>

compVars == <<variant, phase, task, available, heading, accuracyHint, rotationDeg,
              rotationTarget, sub, listenerCount, updateInterval, lastSample>>

mathVars == <<argA, argB, out>>

---------------------------------------------------------------------------
(* Bounds *)

\* The rotation value is followed for this many full turns in each direction.
MaxRotationTurns == 2

\* The pure functions are applied to inputs within this many turns of 0.
MaxInputTurns == 3

---------------------------------------------------------------------------
(* Arithmetic of the source *)

\* n degrees in model units (half-degrees).
D(n) == 2 * n

Abs(n) == IF n < 0 THEN -n ELSE n

\* JavaScript's %: the remainder has the sign of the dividend.
JsRem(a, n) == IF a >= 0 THEN a % n ELSE -((-a) % n)

\* Math.round(n / d) for d > 0: the nearest integer, halves towards +Infinity.
MathRound(n, d) == (2 * n + d) \div (2 * d)

\* clampHeadingDegrees without the correction of a negative remainder.
clampHeadingDegrees_NoWrap(deg) == JsRem(deg, D(360))

clampHeadingDegrees(deg) ==
    LET v == JsRem(deg, D(360))
    IN  IF v < 0 THEN v + D(360) ELSE v

\* shortestDeltaDegrees with an offset of 180 where the source adds 540.
shortestDeltaDegrees_Offset180(fromDeg, toDeg) ==
    LET a == clampHeadingDegrees(fromDeg)
        b == clampHeadingDegrees(toDeg)
    IN  JsRem(b - a + D(180), D(360)) - D(180)

shortestDeltaDegrees(fromDeg, toDeg) ==
    LET a == clampHeadingDegrees(fromDeg)
        b == clampHeadingDegrees(toDeg)
    IN  JsRem(b - a + D(540), D(360)) - D(180)

headings == <<"N", "NE", "E", "SE", "S", "SW", "W", "NW">>

\* cardinalFromHeading with Math.floor where the source has Math.round.
cardinalFromHeading_Floor(deg) ==
    LET idx == JsRem(clampHeadingDegrees(deg) \div D(45), 8)
    IN  IF idx \in 0..7 THEN headings[idx + 1] ELSE "undefined"

\* headings[idx] of a JavaScript array: undefined outside 0..7.
cardinalFromHeading(deg) ==
    LET idx == JsRem(MathRound(clampHeadingDegrees(deg), D(45)), 8)
    IN  IF idx \in 0..7 THEN headings[idx + 1] ELSE "undefined"


\* Math.atan2(y, x) * 180 / Math.PI in half-degrees, rounded down to the model's
\* resolution, on the directions the samples of Samples have: the axes, the
\* diagonals, and the two directions 1:115 off the vertical axis whose angles
\* are 89.502, -90.498, -0.498 and 179.502 degrees.
Atan2Deg(y, x) ==
    CASE x = 0 /\ y = 0          -> 0
      [] x > 0 /\ y = 0          -> 0
      [] x > 0 /\ y = x          -> D(45)
      [] x = 0 /\ y > 0          -> D(90)
      [] x < 0 /\ y = -x         -> D(135)
      [] x < 0 /\ y = 0          -> D(180)
      [] x < 0 /\ y = x          -> -D(135)
      [] x = 0 /\ y < 0          -> -D(90)
      [] x > 0 /\ y = -x         -> -D(45)
      [] x > 0 /\ y = 115 * x    -> D(90) - 1
      [] x < 0 /\ y = 115 * x    -> -D(90) - 1
      [] y < 0 /\ x = -115 * y   -> -1
      [] y > 0 /\ x = -115 * y   -> D(180) - 1

headingFromMagnetometer(v, data) ==
    IF v = 1
    THEN clampHeadingDegrees(Atan2Deg(data.y, data.x) + D(90))
    ELSE clampHeadingDegrees(Atan2Deg(-data.x, data.y))

\* Magnetometer.setUpdateInterval's argument.
UpdateIntervalMs(v) == IF v = 1 THEN 80 ELSE 100

\* mag < lo || mag > hi with mag = Math.sqrt(x*x + y*y + z*z), compared on the
\* squares.
MagnitudeOutOfBand(v, data) ==
    LET sq == data.x * data.x + data.y * data.y + data.z * data.z
        lo == IF v = 1 THEN 15 ELSE 25
        hi == IF v = 1 THEN 80 ELSE 65
    IN  sq < lo * lo \/ sq > hi * hi

\* The listener's `next`: the value handed to withTiming.
NextRotation(v, value, h) ==
    LET current == IF v = 1 THEN value ELSE JsRem(value, D(360))
        delta   == shortestDeltaDegrees(current, h)
    IN  current + delta

\* The value the listener hands to setHeading.
HeadingState(v, h) == IF v = 1 THEN h ELSE D(MathRound(h, D(1)))

\* What the render shows: {Math.round(heading)} and {cardinalFromHeading(heading)}.
DisplayedHeading == MathRound(heading, D(1))

DisplayedCardinal == cardinalFromHeading(heading)

---------------------------------------------------------------------------
(* Inputs *)

NoSample == [x |-> 0, y |-> 0, z |-> 0]

Vec(x, y, z) == [x |-> x, y |-> y, z |-> z]

\* Magnetometer readings delivered to the listener.
Samples ==
    { Vec(0, -40, 0), Vec(40, 0, 0), Vec(0, 40, 0), Vec(-40, 0, 0),
      Vec(30, 30, 0), Vec(1, 115, 0), Vec(-1, -115, 0), Vec(0, -10, 0),
      Vec(0, 20, 0), Vec(70, 0, 0), Vec(0, -40, 30) }

MaxRotation == MaxRotationTurns * D(360)

---------------------------------------------------------------------------
(* The component *)

CompInit ==
    /\ variant \in {1, 2}
    /\ phase = "created"
    /\ task = "idle"
    /\ available = "null"
    /\ heading = 0
    /\ accuracyHint = "null"
    /\ rotationDeg = 0
    /\ rotationTarget = 0
    /\ sub = "null"
    /\ listenerCount = 0
    /\ updateInterval = 0
    /\ lastSample = NoSample

\* The sensor effect runs: the async task starts and suspends at the await.
Mount ==
    /\ phase = "created"
    /\ phase' = "mounted"
    /\ task' = "awaiting"
    /\ UNCHANGED <<variant, available, heading, accuracyHint, rotationDeg,
                   rotationTarget, sub, listenerCount, updateInterval, lastSample>>

\* ProbeResolve without the early return on an unavailable sensor.
ProbeResolve_NoEarlyReturn(isAvailable) ==
    /\ task = "awaiting"
    /\ task' = "done"
    /\ available' = IF isAvailable THEN "true" ELSE "false"
    /\ updateInterval' = UpdateIntervalMs(variant)
    /\ sub' = "subscribed"
    /\ listenerCount' = listenerCount + 1
    /\ UNCHANGED <<variant, phase, heading, accuracyHint, rotationDeg,
                   rotationTarget, lastSample>>

\* isAvailableAsync() resolves and the task runs to its end.
ProbeResolve(isAvailable) ==
    /\ task = "awaiting"
    /\ task' = "done"
    /\ available' = IF isAvailable THEN "true" ELSE "false"
    /\ IF ~isAvailable
       THEN UNCHANGED <<updateInterval, sub, listenerCount>>
       ELSE /\ updateInterval' = UpdateIntervalMs(variant)
            /\ sub' = "subscribed"
            /\ listenerCount' = listenerCount + 1
    /\ UNCHANGED <<variant, phase, heading, accuracyHint, rotationDeg,
                   rotationTarget, lastSample>>

\* isAvailableAsync() rejects: the await throws inside the async function,
\* which has no try/catch, and nothing handles the function's promise.
ProbeReject ==
    /\ task = "awaiting"
    /\ task' = "rejected"
    /\ UNCHANGED <<variant, phase, available, heading, accuracyHint, rotationDeg,
                   rotationTarget, sub, listenerCount, updateInterval, lastSample>>

UnhandledRejection == task = "rejected"

\* The listener passed to Magnetometer.addListener, called with one reading.
OnSample(data) ==
    LET h    == headingFromMagnetometer(variant, data)
        next == NextRotation(variant, rotationDeg, h)
    IN  /\ listenerCount > 0
        /\ Abs(next) <= MaxRotation
        /\ heading' = HeadingState(variant, h)
        /\ rotationTarget' = next
        /\ accuracyHint' = IF MagnitudeOutOfBand(variant, data) THEN "figure8" ELSE "null"
        /\ lastSample' = data
        /\ UNCHANGED <<variant, phase, task, available, rotationDeg, sub,
                       listenerCount, updateInterval>>

\* withTiming moves the shared value towards its target: part of the way, or
\* all of it.
AnimationFrame ==
    /\ rotationDeg # rotationTarget
    /\ \E v \in {rotationDeg + ((rotationTarget - rotationDeg) \div 2), rotationTarget} :
          /\ v # rotationDeg
          /\ rotationDeg' = v
    /\ UNCHANGED <<variant, phase, task, available, heading, accuracyHint,
                   rotationTarget, sub, listenerCount, updateInterval, lastSample>>

\* The effect's cleanup: sub?.remove().
Unmount ==
    /\ phase = "mounted"
    /\ phase' = "unmounted"
    /\ IF sub = "subscribed"
       THEN /\ sub' = "removed"
            /\ listenerCount' = listenerCount - 1
       ELSE UNCHANGED <<sub, listenerCount>>
    /\ UNCHANGED <<variant, task, available, heading, accuracyHint, rotationDeg,
                   rotationTarget, updateInterval, lastSample>>

MathIdle ==
    /\ argA = 0
    /\ argB = 0
    /\ out = [fn |-> "none", val |-> 0]

Init == CompInit /\ MathIdle

Next ==
    \/ Mount /\ UNCHANGED mathVars
    \/ (\E isAvailable \in BOOLEAN : ProbeResolve(isAvailable)) /\ UNCHANGED mathVars
    \/ ProbeReject /\ UNCHANGED mathVars
    \/ (\E data \in Samples : OnSample(data)) /\ UNCHANGED mathVars
    \/ AnimationFrame /\ UNCHANGED mathVars
    \/ Unmount /\ UNCHANGED mathVars

Spec == Init /\ [][Next]_vars

---------------------------------------------------------------------------
(* The pure functions, applied to inputs drawn from a grid: every multiple of *)
(* 22.5 degrees within MaxInputTurns turns of 0 on either side, and the       *)
(* values half a degree below and above each.                                 *)

Inputs ==
    { t * D(360) + g * 45 + e :
        t \in (-MaxInputTurns)..(MaxInputTurns - 1), g \in 0..15, e \in {-1, 0, 1} }

MathInit ==
    /\ argA \in Inputs
    /\ argB \in Inputs
    /\ out = [fn |-> "none", val |-> 0]

ApplyClamp ==
    /\ out.fn = "none"
    /\ out' = [fn |-> "clampHeadingDegrees", val |-> clampHeadingDegrees(argA)]
    /\ UNCHANGED <<argA, argB>>

ApplyShortestDelta ==
    /\ out.fn = "none"
    /\ out' = [fn |-> "shortestDeltaDegrees", val |-> shortestDeltaDegrees(argA, argB)]
    /\ UNCHANGED <<argA, argB>>

\* clampHeadingDegrees(a + shortestDeltaDegrees(a, b))
ApplyDeltaThenClamp ==
    /\ out.fn = "none"
    /\ out' = [fn |-> "deltaThenClamp",
               val |-> clampHeadingDegrees(argA + shortestDeltaDegrees(argA, argB))]
    /\ UNCHANGED <<argA, argB>>

ApplyCardinal ==
    /\ out.fn = "none"
    /\ out' = [fn |-> "cardinalFromHeading", val |-> cardinalFromHeading(argA)]
    /\ UNCHANGED <<argA, argB>>

MathNext ==
    \/ ApplyClamp /\ UNCHANGED compVars
    \/ ApplyShortestDelta /\ UNCHANGED compVars
    \/ ApplyDeltaThenClamp /\ UNCHANGED compVars
    \/ ApplyCardinal /\ UNCHANGED compVars

MathSpecInit == CompInit /\ MathInit

MathSpec == MathSpecInit /\ [][MathNext]_vars

---------------------------------------------------------------------------
(* Properties *)

\* C1: once the component is unmounted and the probe task has finished, no
\* magnetometer listener remains registered.
C1_NoOrphanedListener ==
    (phase = "unmounted" /\ task # "awaiting") => listenerCount = 0

\* C2: a probe that rejects leaves the component as a probe that returns false
\* does: available is false, no listener is registered, and the rejection is
\* not left unhandled.
C2_ProbeFailureIsUnavailable ==
    task = "rejected" =>
        /\ available = "false"
        /\ listenerCount = 0
        /\ ~UnhandledRejection

\* C3 as stated: shortestDeltaDegrees(a, b) lies in (-180, 180], and is +180
\* when b is exactly 180 degrees away from a.
C3_DeltaInHalfOpenAbove ==
    out.fn = "shortestDeltaDegrees" =>
        /\ out.val > -D(180)
        /\ out.val <= D(180)
        /\ (Abs(clampHeadingDegrees(argB) - clampHeadingDegrees(argA)) = D(180)
               => out.val = D(180))

\* C3 amended: shortestDeltaDegrees(a, b) lies in [-180, 180), and is -180
\* when b is exactly 180 degrees away from a.
C3_DeltaInHalfOpenBelow ==
    out.fn = "shortestDeltaDegrees" =>
        /\ out.val >= -D(180)
        /\ out.val < D(180)
        /\ (Abs(clampHeadingDegrees(argB) - clampHeadingDegrees(argA)) = D(180)
               => out.val = -D(180))

C3_Witness ==
    /\ out.fn = "shortestDeltaDegrees"
    /\ argA < 0
    /\ argB > D(720)
    /\ clampHeadingDegrees(argB) - clampHeadingDegrees(argA) = D(180)
    /\ out.val = -D(180)

C5_TargetTakesShortestPath ==
    [][\A data \in Samples :
          OnSample(data) =>
              LET h == headingFromMagnetometer(variant, data)
              IN  /\ rotationTarget' =
                        rotationDeg + shortestDeltaDegrees(JsRem(rotationDeg, D(360)), h)
                  /\ Abs(rotationTarget' - rotationDeg) <= D(180)
                  /\ clampHeadingDegrees(rotationTarget') = h]_vars

\* C6: once the rotation has converged to the target a sample produced, the
\* same sample again leaves the heading and the rotation target unchanged.
C6_SameSampleIsIdempotent ==
    [][\A data \in Samples :
          (OnSample(data) /\ data = lastSample /\ rotationDeg = rotationTarget)
              => (rotationTarget' = rotationTarget /\ heading' = heading)]_vars

CardinalFixedPoints(c, label) ==
    /\ c = D(90) => label = "E"
    /\ c = D(180) => label = "S"
    /\ c = D(270) => label = "W"

CardinalPeriodic(d, label) ==
    /\ label \in {headings[i] : i \in 1..8}
    /\ \A k \in (-MaxInputTurns)..MaxInputTurns :
          cardinalFromHeading(d + k * D(360)) = label

\* C7 as stated: cardinalFromHeading has period 360, returns one of the eight
\* labels, maps 90, 180, 270 to E, S, W and every heading from 337.5 through
\* 22.5 inclusive to N.
C7_NorthOnClosedRange ==
    out.fn = "cardinalFromHeading" =>
        LET c == clampHeadingDegrees(argA)
        IN  /\ CardinalPeriodic(argA, out.val)
            /\ CardinalFixedPoints(c, out.val)
            /\ (c >= 675 \/ c <= 45) => out.val = "N"

\* C7 amended: as C7, with N on the headings from 337.5 inclusive to 22.5
\* exclusive; 22.5 itself is NE.
C7_NorthOnHalfOpenRange ==
    out.fn = "cardinalFromHeading" =>
        LET c == clampHeadingDegrees(argA)
        IN  /\ CardinalPeriodic(argA, out.val)
            /\ CardinalFixedPoints(c, out.val)
            /\ (c >= 675 \/ c < 45) => out.val = "N"
            /\ c = 45 => out.val = "NE"

C7_Witness ==
    /\ out.fn = "cardinalFromHeading"
    /\ argA < 0
    /\ clampHeadingDegrees(argA) = 675
    /\ out.val = "N"

UnavailableState ==
    /\ task = "done"
    /\ sub = "null"
    /\ listenerCount = 0
    /\ updateInterval = 0
    /\ lastSample = NoSample
    /\ heading = 0
    /\ rotationDeg = 0
    /\ rotationTarget = 0
    /\ accuracyHint = "null"

\* C8: availability starts unknown and changes at most once, to unavailable or
\* to available; once the probe has returned false the interval is never set,
\* no listener is added, no sample is processed and heading, rotation and hint
\* keep their initial values.
C8_AvailabilityOneWay ==
    /\ [](available = "false" => UnavailableState)
    /\ [](available = "true" => (task = "done" /\ sub # "null"
                                  /\ updateInterval = UpdateIntervalMs(variant)))
    /\ [](available = "null" => (lastSample = NoSample /\ listenerCount = 0))
    /\ [][available # "null" => available' = available]_vars

C8_Witness ==
    /\ available = "false"
    /\ phase = "unmounted"
    /\ task = "done"

\* C9: after the component has been unmounted no view state is written: a probe
\* resolving after unmount does not set availability, and no sample callback
\* updates heading, rotation or the calibration hint.
C9_NoWriteAfterUnmount ==
    [][phase = "unmounted" =>
          UNCHANGED <<available, heading, rotationTarget, accuracyHint>>]_vars

\* C10: the heading held in view state and the whole-number heading shown on
\* screen are at least 0 and strictly less than 360.
C10_HeadingBelow360 ==
    /\ heading >= 0
    /\ heading < D(360)
    /\ DisplayedHeading >= 0
    /\ DisplayedHeading < 360

=============================================================================
